---- MODULE Spec2Model ----
(***************************************************************************)
(* Products API (src/server.js): an Express application over one in-memory *)
(* array of product objects.  The model keeps the array, the request last  *)
(* served and its response, and one action per HTTP route, each covering   *)
(* the route's whole middleware chain (authenticate, validateProduct, the  *)
(* handler, the error-handling middleware).                                *)
(*                                                                         *)
(* Routes modelled: GET /api/products/<segment>, POST /api/products,       *)
(* PUT /api/products/:id, DELETE /api/products/:id.  GET / and the         *)
(* paginated GET /api/products never touch the array and are left out.     *)
(***************************************************************************)
EXTENDS Integers, Sequences, FiniteSets

VARIABLES products, issued, API_KEY, before, lastReq, lastRes, served

vars == <<products, issued, API_KEY, before, lastReq, lastRes, served>>

(***************************************************************************)
(* Bounds of the model.                                                    *)
(***************************************************************************)
\* requests served in one behaviour
MaxRequests == 2

(***************************************************************************)
(* JavaScript values.  A value carries its type tag t and one payload per  *)
(* type: s the characters of a string, n a number, b a boolean.  Text is a *)
(* sequence of one-character strings so that toLowerCase and includes are  *)
(* computed.  Prices are numbers of hundredths (999.99 is 99999).          *)
(***************************************************************************)
Undefined == [t |-> "undefined", s |-> <<>>, n |-> 0, b |-> FALSE]
Null == [t |-> "null", s |-> <<>>, n |-> 0, b |-> FALSE]
Str(chars) == [t |-> "string", s |-> chars, n |-> 0, b |-> FALSE]
Num(k) == [t |-> "number", s |-> <<>>, n |-> k, b |-> FALSE]
Bool(x) == [t |-> "boolean", s |-> <<>>, n |-> 0, b |-> x]
\* the array literal []
EmptyArray == [t |-> "array", s |-> <<>>, n |-> 0, b |-> FALSE]

\* ToBoolean, as used by ! and ||
Truthy(v) ==
  CASE v.t = "undefined" -> FALSE
    [] v.t = "null" -> FALSE
    [] v.t = "boolean" -> v.b
    [] v.t = "number" -> v.n # 0
    [] v.t = "string" -> v.s # <<>>
    [] OTHER -> TRUE

\* the typeof operator
TypeOf(v) ==
  CASE v.t = "null" -> "object"
    [] v.t = "array" -> "object"
    [] OTHER -> v.t

\* the === operator: primitives by type and value, objects by reference
\* (two arrays that arrived in different places are never the same object)
StrictEq(a, b) ==
  /\ a.t = b.t
  /\ a.t # "array"
  /\ a = b

\* a || b
JsOr(a, b) == IF Truthy(a) THEN a ELSE b

\* String.prototype.toLowerCase over the characters the model uses
LowerChar(c) ==
  CASE c = "L" -> "l"
    [] c = "H" -> "h"
    [] c = "S" -> "s"
    [] c = "E" -> "e"
    [] c = "T" -> "t"
    [] OTHER -> c

ToLowerCase(chars) == [i \in 1..Len(chars) |-> LowerChar(chars[i])]

\* String.prototype.includes
Includes(chars, q) ==
  \E i \in 0..(Len(chars) - Len(q)) : SubSeq(chars, i + 1, i + Len(q)) = q

(***************************************************************************)
(* Product objects: the six properties the program reads or writes.  A     *)
(* property holding Undefined is a property the object does not have.      *)
(***************************************************************************)
Fields == {"id", "name", "description", "price", "category", "inStock"}

EmptyObject == [f \in Fields |-> Undefined]

\* { ...a, ...b }: b's own properties override a's
Spread(a, b) == [f \in Fields |-> IF b[f].t # "undefined" THEN b[f] ELSE a[f]]

\* uuidv4(): the k-th identifier drawn; distinct draws give distinct strings
uuidv4(k) == Str([i \in 1..k |-> "u"])

Laptop == <<"L", "a", "p", "t", "o", "p">>
Smartphone == <<"S", "m", "a", "r", "t", "p", "h", "o", "n", "e">>
Electronics == <<"E", "l", "e", "c", "t", "r", "o", "n", "i", "c", "s">>
HighPerformanceLaptop ==
  <<"H", "i", "g", "h", " ", "p", "e", "r", "f", "o", "r", "m", "a", "n", "c", "e",
    " ", "l", "a", "p", "t", "o", "p">>
LatestModel == <<"L", "a", "t", "e", "s", "t", " ", "m", "o", "d", "e", "l">>

\* let products = [ ... ]
SeedProducts ==
  << [id |-> uuidv4(1), name |-> Str(Laptop), description |-> Str(HighPerformanceLaptop),
      price |-> Num(99999), category |-> Str(Electronics), inStock |-> Bool(TRUE)],
     [id |-> uuidv4(2), name |-> Str(Smartphone), description |-> Str(LatestModel),
      price |-> Num(69999), category |-> Str(Electronics), inStock |-> Bool(TRUE)] >>

(***************************************************************************)
(* Requests and responses.  seg is the path segment after /api/products/   *)
(* (empty for the collection path), apiKey the x-api-key header, body the  *)
(* object express.json() parsed, q the q query parameter.  A response      *)
(* records its status, the body it carries and trail, the middleware and   *)
(* handlers that ran for the request, in order.                            *)
(*   shape "product": items holds the one product sent                     *)
(*   shape "array"  : items is the array sent                              *)
(*   shape "stats"  : stats is the object sent                             *)
(*   shape "message": the body { message }                                 *)
(*   shape "error"  : the body { error: { message, status, timestamp } },  *)
(*                    errStatus its status property                        *)
(*   shape "empty"  : no body                                              *)
(***************************************************************************)
Request(method, seg, apiKey, body, q) ==
  [method |-> method, seg |-> seg, apiKey |-> apiKey, body |-> body, q |-> q]

NoStats ==
  [totalProducts |-> 0, byCategory |-> [k \in {} |-> 0], inStock |-> 0, outOfStock |-> 0]

Response(status, trail, shape, items, message, errStatus, stats) ==
  [status |-> status, trail |-> trail, shape |-> shape, items |-> items,
   message |-> message, errStatus |-> errStatus, stats |-> stats]

\* the function that wrote the response
Responder(res) == res.trail[Len(res.trail)]

\* what a step of the chain hands back: the store, the identifiers drawn, the response
Outcome(store, drawn, res) == [products |-> store, issued |-> drawn, res |-> res]

(***************************************************************************)
(* ./errors: the error classes the handlers raise.  statusCode 0 stands    *)
(* for an error object without a statusCode property.                      *)
(***************************************************************************)
ValidationError(message) ==
  [name |-> "ValidationError", message |-> message, statusCode |-> 400]

NotFoundError(message) ==
  [name |-> "NotFoundError", message |-> message, statusCode |-> 404]

\* what the engine throws on undefined.toLowerCase()
TypeError(message) == [name |-> "TypeError", message |-> message, statusCode |-> 0]

\* app.use((err, req, res, next) => ...): statusCode = err.statusCode || 500
errorHandler(err, trail) ==
  LET statusCode == IF err.statusCode # 0 THEN err.statusCode ELSE 500
  IN Response(statusCode, Append(trail, "errorHandler"), "error", <<>>,
              err.message, statusCode, NoStats)

(***************************************************************************)
(* Middleware.                                                             *)
(***************************************************************************)
\* a faulty authenticate that only rejects a missing header
authenticate_PresenceOnly(apiKey, secret) == Truthy(apiKey)

\* authenticate: TRUE when next() is called, FALSE when it answers 401
authenticate(apiKey, secret) ==
  ~(~Truthy(apiKey) \/ ~StrictEq(apiKey, secret))

\* res.status(401).json({ message: 'Unauthorized' })
Unauthorized(trail) ==
  Response(401, trail, "message", <<>>, "Unauthorized", 0, NoStats)

\* a faulty validateProduct that lost the price <= 0 test
validateProduct_NoSignTest(body) ==
  IF ~Truthy(body.name) \/ ~Truthy(body.price) \/ ~Truthy(body.category)
    THEN [next |-> FALSE, err |-> ValidationError("Name, price and category are required")]
  ELSE IF TypeOf(body.price) # "number"
    THEN [next |-> FALSE, err |-> ValidationError("Price must be a number")]
  ELSE [next |-> TRUE, err |-> ValidationError("")]

\* validateProduct: next is TRUE when next() is called, else err is thrown
validateProduct(body) ==
  IF ~Truthy(body.name) \/ ~Truthy(body.price) \/ ~Truthy(body.category)
    THEN [next |-> FALSE, err |-> ValidationError("Name, price and category are required")]
  ELSE IF TypeOf(body.price) # "number"
    THEN [next |-> FALSE, err |-> ValidationError("Price must be a number")]
  ELSE IF body.price.n <= 0
    THEN [next |-> FALSE, err |-> ValidationError("Price must be greater than 0")]
  ELSE [next |-> TRUE, err |-> ValidationError("")]

(***************************************************************************)
(* Array helpers.  Positions are JavaScript's: 0-based, -1 for none.       *)
(***************************************************************************)
\* products.findIndex(p => p.id === id)
FindIndex(store, id) ==
  LET hits == {i \in 1..Len(store) : StrictEq(store[i].id, id)}
  IN IF hits = {} THEN -1
     ELSE (CHOOSE i \in hits : \A j \in hits : i <= j) - 1

\* array.filter(keep), keep given as the set of 1-based positions kept
RECURSIVE FilterFrom(_, _, _)
FilterFrom(store, kept, i) ==
  IF i > Len(store) THEN <<>>
  ELSE IF i \in kept THEN <<store[i]>> \o FilterFrom(store, kept, i + 1)
  ELSE FilterFrom(store, kept, i + 1)

Filter(store, kept) == FilterFrom(store, kept, 1)

(***************************************************************************)
(* Route handlers.  Each takes the array, the number of identifiers drawn  *)
(* so far, the request and the trail of middleware that already ran, and   *)
(* hands back an Outcome.                                                  *)
(***************************************************************************)
\* GET /api/products/:id
GetProduct(store, drawn, req, trail) ==
  LET ran == Append(trail, "GetProduct")
      index == FindIndex(store, Str(req.seg))
  IN IF index = -1
       THEN Outcome(store, drawn, errorHandler(NotFoundError("Product not found"), ran))
     ELSE Outcome(store, drawn,
                  Response(200, ran, "product", <<store[index + 1]>>, "", 0, NoStats))

\* POST /api/products
CreateProduct(store, drawn, req, trail) ==
  LET ran == Append(trail, "CreateProduct")
      product == [Spread([EmptyObject EXCEPT !.id = uuidv4(drawn + 1)], req.body)
                    EXCEPT !.inStock = JsOr(req.body.inStock, Bool(TRUE))]
  IN Outcome(Append(store, product), drawn + 1,
             Response(201, ran, "product", <<product>>, "", 0, NoStats))

\* a faulty update that lets the body's id through
UpdateProduct_BodyIdWins(store, drawn, req, trail) ==
  LET ran == Append(trail, "UpdateProduct")
      index == FindIndex(store, Str(req.seg))
      merged == Spread(store[index + 1], req.body)
  IN IF index = -1
       THEN Outcome(store, drawn, errorHandler(NotFoundError("Product not found"), ran))
     ELSE Outcome([store EXCEPT ![index + 1] = merged], drawn,
                  Response(200, ran, "product", <<merged>>, "", 0, NoStats))

\* PUT /api/products/:id
UpdateProduct(store, drawn, req, trail) ==
  LET ran == Append(trail, "UpdateProduct")
      index == FindIndex(store, Str(req.seg))
      merged == Spread(Spread(store[index + 1], req.body),
                       [EmptyObject EXCEPT !.id = store[index + 1].id])
  IN IF index = -1
       THEN Outcome(store, drawn, errorHandler(NotFoundError("Product not found"), ran))
     ELSE Outcome([store EXCEPT ![index + 1] = merged], drawn,
                  Response(200, ran, "product", <<merged>>, "", 0, NoStats))

\* a faulty delete that never reports a missing product
DeleteProduct_AlwaysNoContent(store, drawn, req, trail) ==
  LET ran == Append(trail, "DeleteProduct")
      remaining == Filter(store, {i \in 1..Len(store) : ~StrictEq(store[i].id, Str(req.seg))})
  IN Outcome(remaining, drawn, Response(204, ran, "empty", <<>>, "", 0, NoStats))

\* DELETE /api/products/:id
DeleteProduct(store, drawn, req, trail) ==
  LET ran == Append(trail, "DeleteProduct")
      initialLength == Len(store)
      remaining == Filter(store, {i \in 1..Len(store) : ~StrictEq(store[i].id, Str(req.seg))})
  IN IF Len(remaining) = initialLength
       THEN Outcome(remaining, drawn, errorHandler(NotFoundError("Product not found"), ran))
     ELSE Outcome(remaining, drawn, Response(204, ran, "empty", <<>>, "", 0, NoStats))

\* the products the search predicate accepts (1-based positions)
SearchMatches(store, q) ==
  {i \in 1..Len(store) :
     \/ Includes(ToLowerCase(store[i].name.s), ToLowerCase(q.s))
     \/ Includes(ToLowerCase(store[i].description.s), ToLowerCase(q.s))}

\* the products on which the search predicate throws: toLowerCase is called on
\* name, and on description when the name does not match
SearchThrows(store, q) ==
  {i \in 1..Len(store) :
     \/ store[i].name.t # "string"
     \/ /\ ~Includes(ToLowerCase(store[i].name.s), ToLowerCase(q.s))
        /\ store[i].description.t # "string"}

\* GET /api/products/search
SearchProducts(store, drawn, req, trail) ==
  LET ran == Append(trail, "SearchProducts")
  IN IF ~Truthy(req.q)
       THEN Outcome(store, drawn, errorHandler(ValidationError("Search query required"), ran))
     ELSE IF SearchThrows(store, req.q) # {}
       THEN Outcome(store, drawn, errorHandler(TypeError("toLowerCase is not a function"), ran))
     ELSE Outcome(store, drawn,
                  Response(200, ran, "array", Filter(store, SearchMatches(store, req.q)),
                           "", 0, NoStats))

\* the property key acc[product.category] uses: the string itself, "" for []
PropertyKey(v) == v.s

\* GET /api/products/stats
ProductStats(store, drawn, req, trail) ==
  LET ran == Append(trail, "ProductStats")
      keys == {PropertyKey(store[i].category) : i \in 1..Len(store)}
      stats == [totalProducts |-> Len(store),
                byCategory |-> [k \in keys |->
                  Cardinality({i \in 1..Len(store) : PropertyKey(store[i].category) = k})],
                inStock |-> Cardinality({i \in 1..Len(store) : Truthy(store[i].inStock)}),
                outOfStock |-> Cardinality({i \in 1..Len(store) : ~Truthy(store[i].inStock)})]
  IN Outcome(store, drawn, Response(200, ran, "stats", <<>>, "", 0, stats))

(***************************************************************************)
(* The router.  Express tries the routes in the order they were registered *)
(* and runs the first whose method and path match; a path of ":id" matches *)
(* any one segment.                                                        *)
(***************************************************************************)
Search == <<"s", "e", "a", "r", "c", "h">>
Stats == <<"s", "t", "a", "t", "s">>

Routes ==
  << [method |-> "GET", param |-> TRUE, literal |-> <<>>, handler |-> "GetProduct"],
     [method |-> "POST", param |-> FALSE, literal |-> <<>>, handler |-> "CreateProduct"],
     [method |-> "PUT", param |-> TRUE, literal |-> <<>>, handler |-> "UpdateProduct"],
     [method |-> "DELETE", param |-> TRUE, literal |-> <<>>, handler |-> "DeleteProduct"],
     [method |-> "GET", param |-> FALSE, literal |-> Search, handler |-> "SearchProducts"],
     [method |-> "GET", param |-> FALSE, literal |-> Stats, handler |-> "ProductStats"] >>

Matches(route, method, seg) ==
  /\ route.method = method
  /\ IF route.param THEN seg # <<>> ELSE seg = route.literal

\* the handler of the first matching route
Dispatch(method, seg) ==
  LET hits == {i \in 1..Len(Routes) : Matches(Routes[i], method, seg)}
  IN Routes[CHOOSE i \in hits : \A j \in hits : i <= j].handler

(***************************************************************************)
(* The middleware chain of each route, as registered.                      *)
(***************************************************************************)
\* app.get('/api/products/...'): whichever GET route the router picks
GetRoute(store, drawn, req, secret) ==
  LET handler == Dispatch("GET", req.seg)
  IN CASE handler = "GetProduct" -> GetProduct(store, drawn, req, <<>>)
       [] handler = "SearchProducts" -> SearchProducts(store, drawn, req, <<>>)
       [] handler = "ProductStats" -> ProductStats(store, drawn, req, <<>>)

\* app.post('/api/products', authenticate, validateProduct, handler)
PostRoute(store, drawn, req, secret) ==
  LET valid == validateProduct(req.body)
  IN IF ~authenticate(req.apiKey, secret)
       THEN Outcome(store, drawn, Unauthorized(<<"authenticate">>))
     ELSE IF ~valid.next
       THEN Outcome(store, drawn, errorHandler(valid.err, <<"authenticate", "validateProduct">>))
     ELSE CreateProduct(store, drawn, req, <<"authenticate", "validateProduct">>)

\* app.put('/api/products/:id', authenticate, validateProduct, handler)
PutRoute(store, drawn, req, secret) ==
  LET valid == validateProduct(req.body)
  IN IF ~authenticate(req.apiKey, secret)
       THEN Outcome(store, drawn, Unauthorized(<<"authenticate">>))
     ELSE IF ~valid.next
       THEN Outcome(store, drawn, errorHandler(valid.err, <<"authenticate", "validateProduct">>))
     ELSE UpdateProduct(store, drawn, req, <<"authenticate", "validateProduct">>)

\* app.delete('/api/products/:id', authenticate, handler)
DeleteRoute(store, drawn, req, secret) ==
  IF ~authenticate(req.apiKey, secret)
    THEN Outcome(store, drawn, Unauthorized(<<"authenticate">>))
  ELSE DeleteProduct(store, drawn, req, <<"authenticate">>)

(***************************************************************************)
(* The requests the clients send.                                          *)
(***************************************************************************)
SecretKey == <<"k", "e", "y">>
WrongKey == <<"b", "a", "d">>
Unknown == <<"n", "o", "n", "e">>
Tablet == <<"T", "a", "b", "l", "e", "t">>
Toys == <<"T", "o", "y", "s">>
LaptopBag == <<"L", "a", "p", "t", "o", "p", " ", "b", "a", "g">>

\* x-api-key: no header, a wrong one, the configured one
ApiKeys == {Undefined, Str(WrongKey), Str(SecretKey)}

\* a body with the three required properties and nothing else
BaseBody ==
  [EmptyObject EXCEPT !.name = Str(Tablet), !.price = Num(49999), !.category = Str(Toys)]

\* identifiers a client can put in a body: those of stored products and a word
BodyIds(store) == {store[i].id : i \in 1..Len(store)} \cup {Str(Search)}

\* JSON bodies: the base body with one property changed, and the empty object
Bodies(store) ==
  {BaseBody, EmptyObject}
    \cup {[BaseBody EXCEPT !.name = v] : v \in {Undefined, Null, Str(<<>>), EmptyArray}}
    \cup {[BaseBody EXCEPT !.price = v] :
            v \in {Undefined, Num(0), Num(-100), Str(<<"5">>)}}
    \cup {[BaseBody EXCEPT !.category = v] : v \in {Undefined, Str(<<>>)}}
    \cup {[BaseBody EXCEPT !.description = Str(LaptopBag)]}
    \cup {[BaseBody EXCEPT !.inStock = Bool(FALSE)]}
    \cup {[BaseBody EXCEPT !.id = v] : v \in BodyIds(store)}

\* path segments naming a product: the identifiers in the array and a stranger
TargetSegs(store) == {store[i].id.s : i \in 1..Len(store)} \cup {Unknown}

\* path segments of GET requests: those and the two literal words
PathSegs(store) == TargetSegs(store) \cup {Search, Stats}

\* ?q=: absent, empty, a word
Queries(seg) == IF seg = Search THEN {Undefined, Str(<<>>), Str(Laptop)} ELSE {Undefined}

(***************************************************************************)
(* The state machine.                                                      *)
(***************************************************************************)
Init ==
  /\ products = SeedProducts
  /\ issued = 2
  /\ API_KEY \in {Str(SecretKey), Undefined}
  /\ before = SeedProducts
  /\ lastReq = Request("NONE", <<>>, Undefined, EmptyObject, Undefined)
  /\ lastRes = Response(0, <<"listen">>, "empty", <<>>, "", 0, NoStats)
  /\ served = 0

\* the request is served to completion and the state keeps what it did
Serve(req, out) ==
  /\ products' = out.products
  /\ issued' = out.issued
  /\ before' = products
  /\ lastReq' = req
  /\ lastRes' = out.res
  /\ served' = served + 1
  /\ UNCHANGED API_KEY

GetRequest ==
  /\ served < MaxRequests
  /\ \E seg \in PathSegs(products) : \E q \in Queries(seg) :
      LET req == Request("GET", seg, Undefined, EmptyObject, q)
      IN Serve(req, GetRoute(products, issued, req, API_KEY))

PostRequest ==
  /\ served < MaxRequests
  /\ \E apiKey \in ApiKeys : \E body \in Bodies(products) :
      LET req == Request("POST", <<>>, apiKey, body, Undefined)
      IN Serve(req, PostRoute(products, issued, req, API_KEY))

PutRequest ==
  /\ served < MaxRequests
  /\ \E apiKey \in ApiKeys : \E seg \in TargetSegs(products) : \E body \in Bodies(products) :
      LET req == Request("PUT", seg, apiKey, body, Undefined)
      IN Serve(req, PutRoute(products, issued, req, API_KEY))

DeleteRequest ==
  /\ served < MaxRequests
  /\ \E apiKey \in ApiKeys : \E seg \in TargetSegs(products) :
      LET req == Request("DELETE", seg, apiKey, EmptyObject, Undefined)
      IN Serve(req, DeleteRoute(products, issued, req, API_KEY))

Next == GetRequest \/ PostRequest \/ PutRequest \/ DeleteRequest

Spec == Init /\ [][Next]_vars

(***************************************************************************)
(* Vocabulary of the properties: what the last request was and what the    *)
(* array looked like when it arrived (before).                             *)
(***************************************************************************)
\* the request carried the configured secret in x-api-key
Authenticated ==
  /\ lastReq.apiKey.t = "string"
  /\ API_KEY.t = "string"
  /\ lastReq.apiKey.s = API_KEY.s

\* the body has name, price and category, and a numeric price above zero
WellFormedBody(body) ==
  /\ Truthy(body.name)
  /\ Truthy(body.category)
  /\ body.price.t = "number"
  /\ body.price.n > 0

\* the body lacks a required property or its price is no positive number
BadPayload(body) ==
  \/ body.name = Undefined
  \/ body.price = Undefined
  \/ body.category = Undefined
  \/ body.price.t # "number"
  \/ body.price.n <= 0

\* some product stored when the request arrived has the path's id
TargetPresent == \E i \in 1..Len(before) : before[i].id = Str(lastReq.seg)

\* a value that is there and, when it has a length, is not of length zero
NonEmpty(v) ==
  /\ v.t \notin {"undefined", "null"}
  /\ v.t \in {"string", "array"} => v.s # <<>>

\* the answer a GET /api/products/<seg> would get in the current state
GetNow(seg) ==
  GetRoute(products, issued, Request("GET", seg, Undefined, EmptyObject, Undefined),
           API_KEY).res

\* the update of the first product with the path's id: answered 200 with the
\* merged product, supplied properties replaced, the others and the id kept,
\* every other position untouched
UpdateEffect ==
  LET index == FindIndex(before, Str(lastReq.seg)) + 1
      old == before[index]
  IN /\ lastRes.status = 200
     /\ lastRes.shape = "product"
     /\ Len(products) = Len(before)
     /\ lastRes.items = <<products[index]>>
     /\ \A j \in 1..Len(before) : j # index => products[j] = before[j]
     /\ products[index].id = old.id
     /\ \A f \in Fields \ {"id"} :
          products[index][f] = IF lastReq.body[f] # Undefined THEN lastReq.body[f] ELSE old[f]

(***************************************************************************)
(* Properties.                                                             *)
(***************************************************************************)
\* C1: a GET of /api/products/search with a non-empty q is answered 200 by the
\* search handler with an array, and a GET of /api/products/stats is answered
\* 200 by the stats handler with the aggregate; neither goes to the by-id route.
C1_SearchAndStatsReachTheirHandlers ==
  /\ (lastReq.method = "GET" /\ lastReq.seg = Search /\ Truthy(lastReq.q)) =>
       /\ lastRes.trail[1] = "SearchProducts"
       /\ lastRes.status = 200
       /\ lastRes.shape = "array"
  /\ (lastReq.method = "GET" /\ lastReq.seg = Stats) =>
       /\ lastRes.trail[1] = "ProductStats"
       /\ lastRes.status = 200
       /\ lastRes.shape = "stats"

\* C2: no two stored products have the same id, and every stored id is one the
\* server drew with uuidv4.
C2_IdsUniqueAndServerGenerated ==
  /\ \A i, j \in 1..Len(products) : i # j => products[i].id # products[j].id
  /\ \A i \in 1..Len(products) : \E k \in 1..issued : products[i].id = uuidv4(k)

\* C3: a POST, PUT or DELETE whose x-api-key is absent or differs from the
\* secret is answered 401 by authenticate alone, and the array is unchanged.
C3_UnauthorizedIsRejected ==
  (/\ lastReq.method \in {"POST", "PUT", "DELETE"}
   /\ (lastReq.apiKey = Undefined \/ lastReq.apiKey # API_KEY)) =>
    /\ lastRes.status = 401
    /\ lastRes.trail = <<"authenticate">>
    /\ products = before

\* C3 witness: a wrong key on a PUT that would otherwise have updated a product
C3_Witness ==
  /\ lastReq.method = "PUT"
  /\ lastReq.apiKey = Str(WrongKey)
  /\ API_KEY = Str(SecretKey)
  /\ WellFormedBody(lastReq.body)
  /\ TargetPresent
  /\ lastRes.status = 401

\* C4: an authenticated create whose body lacks name, price or category, or
\* whose price is not a number or is <= 0, is answered 400 and the array keeps
\* its size and contents.
C4_BadCreateIsRejected ==
  (lastReq.method = "POST" /\ Authenticated /\ BadPayload(lastReq.body)) =>
    /\ lastRes.status = 400
    /\ Len(products) = Len(before)
    /\ products = before

\* C4 witness: an authenticated create with a negative price was answered 400
C4_Witness ==
  /\ lastReq.method = "POST"
  /\ Authenticated
  /\ lastReq.body.price = Num(-100)
  /\ lastRes.status = 400

\* C5: an authenticated DELETE of an id present in the array removes exactly
\* one product, leaves the others in place, and a GET of that id then answers 404.
C5_DeleteRemovesExactlyOne ==
  (lastReq.method = "DELETE" /\ Authenticated /\ TargetPresent) =>
    /\ Len(products) = Len(before) - 1
    /\ \E k \in 1..Len(before) :
         products = SubSeq(before, 1, k - 1) \o SubSeq(before, k + 1, Len(before))
    /\ GetNow(lastReq.seg).status = 404

\* C6: an authenticated create with valid fields appends one record and returns
\* it, a GET by the returned id answers that very record, and inStock is true
\* when the request omitted it.
C6_CreatedRecordIsRetrievable ==
  (lastReq.method = "POST" /\ lastRes.status = 201) =>
    LET created == products[Len(products)]
    IN /\ products = Append(before, created)
       /\ lastRes.items = <<created>>
       /\ GetNow(created.id.s).status = 200
       /\ GetNow(created.id.s).items = <<created>>
       /\ FindIndex(products, created.id) = Len(products) - 1
       /\ lastReq.body.inStock = Undefined => created.inStock = Bool(TRUE)

\* C7 as stated: an authenticated PUT on an existing id with any partial body
\* answers 200 with the merged product, keeps the id and touches nothing else.
C7_PartialUpdateAnswers200 ==
  (lastReq.method = "PUT" /\ Authenticated /\ TargetPresent) => UpdateEffect

\* C7 amended: an authenticated PUT on an existing id whose body carries name,
\* category and a positive numeric price answers 200 with the merged product:
\* supplied properties replaced, the others kept, the id kept even when the body
\* has another id, no other product or position changed.
C7_ValidUpdateMerges ==
  (/\ lastReq.method = "PUT"
   /\ Authenticated
   /\ TargetPresent
   /\ WellFormedBody(lastReq.body)) => UpdateEffect

\* C7 witness: an update whose body carried another product's id was answered 200
C7_Witness ==
  /\ lastReq.method = "PUT"
  /\ Authenticated
  /\ TargetPresent
  /\ lastReq.body.id # Undefined
  /\ lastReq.body.id # Str(lastReq.seg)
  /\ lastRes.status = 200

\* C8 as stated: a get, update or delete of an id that is not in the array
\* answers 404, for update whatever the body is, and leaves the array unchanged.
C8_MissingIdAnswers404 ==
  (/\ lastReq.method \in {"GET", "PUT", "DELETE"}
   /\ lastReq.method # "GET" => Authenticated
   /\ ~TargetPresent) =>
    /\ lastRes.status = 404
    /\ products = before

\* C8 amended: a get, a delete, or an update whose body passes validation, of an
\* id that is not in the array answers 404 and leaves the array unchanged.
C8_MissingIdAnswers404WhenValid ==
  (/\ lastReq.method \in {"GET", "PUT", "DELETE"}
   /\ lastReq.method # "GET" => Authenticated
   /\ lastReq.method = "PUT" => WellFormedBody(lastReq.body)
   /\ ~TargetPresent) =>
    /\ lastRes.status = 404
    /\ products = before

\* C8 witness: an authenticated delete of an id nobody has was answered 404
C8_Witness ==
  /\ lastReq.method = "DELETE"
  /\ Authenticated
  /\ lastReq.seg = Unknown
  /\ ~TargetPresent
  /\ lastRes.status = 404

\* C9: every failure response (status 400 and above) is written by the error
\* handler and has the body { error: { message, status, timestamp } } with
\* status equal to the status code sent.
C9_FailuresUseErrorFormatter ==
  lastRes.status >= 400 =>
    /\ Responder(lastRes) = "errorHandler"
    /\ lastRes.shape = "error"
    /\ lastRes.errStatus = lastRes.status

\* C10: every stored product has a numeric price above zero and a non-empty
\* name and category.
C10_StoredProductsAreWellFormed ==
  \A i \in 1..Len(products) :
    /\ products[i].price.t = "number"
    /\ products[i].price.n > 0
    /\ NonEmpty(products[i].name)
    /\ NonEmpty(products[i].category)

====
